---- MODULE Spec2Model ----
(***************************************************************************)
(* Model of the yxorp reverse proxy: the SIGHUP reload task, the TLS       *)
(* acceptor and the request classifier of the Proxy service.               *)
(*                                                                         *)
(* Strings are sequences of one-byte tokens.  DEL stands for the byte      *)
(* 0x7f and OBS for a byte >= 0x80 (obs-text).                             *)
(***************************************************************************)
EXTENDS Integers, Sequences, FiniteSets, TLC

VARIABLES dynamic_config, server_config, reload_pc, loads, at_recv, log,
          conns, last, eng, tunnel, proc

vars == <<dynamic_config, server_config, reload_pc, loads, at_recv, log,
          conns, last, eng, tunnel, proc>>

\* ---------------------------------------------------------------- bounds
MaxLoads == 1
MaxConns == 1
MaxBytes == 1

\* ------------------------------------------------------------- constants
\* Option<T>: None is the empty sequence, Some(x) the one-element sequence.
None == <<>>
Some(x) == <<x>>
DEL == "DEL"
OBS == "OBS"

ConnIds == 1..MaxConns

\* ------------------------------------------------- configuration (inputs)
\* config.rs RouteConfig: a wildcard host pattern and a backend address.
Route(h, a) == [host |-> h, address |-> a]

\* The configurations the config file can hold when it is read.

ConfigFiles ==
    { [cert_file |-> "cert1.pem",
       routes |-> << Route(<<"a", "b">>, 9000), Route(<<"*">>, 9003) >>],
      [cert_file |-> "cert2.pem",
       routes |-> << Route(<<"?">>, 9001), Route(<<"b">>, 9002) >>] }

\* What reading and parsing the file can give: None for a read or parse
\* error, Some(content) otherwise.
FileContents == {None} \cup {Some(f) : f \in ConfigFiles}

\* DynamicConfig::load on success: the parsed file, tagged with the number
\* of the load that produced it.
DynamicConfigLoad(content, n) ==
    [load |-> n, cert_file |-> content.cert_file, routes |-> content.routes]

\* load_server_config / ServerConfig::load on success: credentials built
\* from the cert and key files the given dynamic config names.
ServerConfigLoad(dc) == [load |-> dc.load, cert |-> dc.cert_file]

\* ------------------------------------------------------- wildcard match
\* WildMatch::matches: '*' any run (also empty), '?' exactly one
\* character, anything else literal; anchored at both ends.
RECURSIVE WildMatches(_, _)
WildMatches(p, s) ==
    IF p = <<>> THEN s = <<>>
    ELSE IF Head(p) = "*"
         THEN WildMatches(Tail(p), s)
              \/ (s # <<>> /\ WildMatches(p, Tail(s)))
         ELSE /\ s # <<>>
              /\ (Head(p) = "?" \/ Head(p) = Head(s))
              /\ WildMatches(Tail(p), Tail(s))

\* routes.iter().find(|route| route.host.matches(host)): index of the first
\* matching route, 0 when the iterator is exhausted.
RECURSIVE FindFrom(_, _, _)
FindFrom(routes, host, i) ==
    IF i > Len(routes) THEN 0
    ELSE IF WildMatches(routes[i].host, host) THEN i
         ELSE FindFrom(routes, host, i + 1)

\* Faulty variant: the last matching route wins (rfind).
RECURSIVE FindBack(_, _, _)
FindBack(routes, host, i) ==
    IF i < 1 THEN 0
    ELSE IF WildMatches(routes[i].host, host) THEN i
         ELSE FindBack(routes, host, i - 1)

FindRoute_Last(routes, host) == FindBack(routes, host, Len(routes))

FindRoute(routes, host) == FindFrom(routes, host, 1)

\* ------------------------------------------------------ header values
\* HeaderValue::from_str (str::parse::<HeaderValue>): every byte must be
\* >= 32 and not 127 (or a tab); Some(value) on success, None on error.
IsValidHeaderByte(b) == b # DEL

ParseHeaderValue(s) ==
    IF \A i \in 1..Len(s) : IsValidHeaderByte(s[i]) THEN Some(s) ELSE None

\* HeaderValue::to_str().ok(): Some(str) when every byte is visible ASCII
\* (32..127 exclusive, or tab), None otherwise.
IsVisibleAscii(b) == b # OBS /\ b # DEL

HeaderToStr(v) ==
    IF \A i \in 1..Len(v) : IsVisibleAscii(v[i]) THEN Some(v) ELSE None

\* Itertools::all_equal_value over get_all(UPGRADE): Some(v) when there is
\* at least one value and all values equal v (Ok(v)); None for Err(_).
RECURSIVE AllEqualFrom(_, _, _)
AllEqualFrom(vals, first, i) ==
    IF i > Len(vals) THEN Some(first)
    ELSE IF vals[i] # first THEN None
         ELSE AllEqualFrom(vals, first, i + 1)

\* Faulty variant: only the first Upgrade value is looked at.
AllEqualValue_First(vals) ==
    IF vals = <<>> THEN None ELSE Some(vals[1])

AllEqualValue(vals) ==
    IF vals = <<>> THEN None ELSE AllEqualFrom(vals, vals[1], 2)

\* ---------------------------------------------------------- responders
NOT_FOUND == 404
MOVED_PERMANENTLY == 301

\* StatusCode::to_string: the code and its canonical reason phrase.
StatusToString(status) ==
    CASE status = NOT_FOUND -> "404 Not Found"
      [] status = MOVED_PERMANENTLY -> "301 Moved Permanently"

HttpsPrefix == <<"h", "t", "t", "p", "s", ":", "/", "/">>

\* The result of Proxy::call: the disposition taken, whether the future
\* resolves to Ok or Err, the response built locally (status, body,
\* headers), the backend dialled (if any) and whether the routing table
\* lock was read.
Outcome(d, ok, status, body, headers, backend, read_routes) ==
    [disposition |-> d, ok |-> ok, status |-> status, body |-> body,
     headers |-> headers, backend |-> backend, read_routes |-> read_routes]

\* Proxy::not_found
not_found(read_routes) ==
    Outcome("NotFound", TRUE, NOT_FOUND, StatusToString(NOT_FOUND), <<>>,
            None, read_routes)

\* Faulty variant: the path and query are left out of the Location.
redirect_to_https_NoPath(in_req, host) ==
    LET value == ParseHeaderValue(HttpsPrefix \o host)
    IN  IF value = None
        THEN Outcome("Redirect", FALSE, 0, "", <<>>, None, FALSE)
        ELSE Outcome("Redirect", TRUE, MOVED_PERMANENTLY, "",
                     << [name |-> "location", value |-> value[1]] >>,
                     None, FALSE)

\* Faulty variant: an invalid Location value is skipped and the 301 is
\* answered without it.
redirect_to_https_SkipLocation(in_req, host) ==
    LET pq == IF in_req.path_and_query = None THEN <<>>
              ELSE in_req.path_and_query[1]
        value == ParseHeaderValue(HttpsPrefix \o host \o pq)
    IN  Outcome("Redirect", TRUE, MOVED_PERMANENTLY, "",
                IF value = None THEN <<>>
                ELSE << [name |-> "location", value |-> value[1]] >>,
                None, FALSE)

\* Proxy::redirect_to_https
redirect_to_https(in_req, host) ==
    LET pq == IF in_req.path_and_query = None THEN <<>>
              ELSE in_req.path_and_query[1]
        location == HttpsPrefix \o host \o pq
        value == ParseHeaderValue(location)
    IN  IF value = None
        THEN Outcome("Redirect", FALSE, 0, "", <<>>, None, FALSE)
        ELSE Outcome("Redirect", TRUE, MOVED_PERMANENTLY, "",
                     << [name |-> "location", value |-> value[1]] >>,
                     None, FALSE)

\* Proxy::forward: a boxed future is returned (ok: the call itself did not
\* fail; path_and_query().unwrap() panics on a URI without one); the
\* response is the backend's and the steps of the future are the Eng
\* actions below.
forward(in_req, host, address) ==
    Outcome("Forward", in_req.path_and_query # None, 0, "", <<>>,
            Some(address), TRUE)

\* Proxy::upgrade
upgrade(in_req, host, address) ==
    Outcome("Upgrade", in_req.path_and_query # None, 0, "", <<>>,
            Some(address), TRUE)

\* Faulty variant: an absent Host header gives no host string.
HostOf_AbsentIsNone(req) ==
    IF req.authority # None THEN req.authority
    ELSE IF req.host = None THEN None
         ELSE HeaderToStr(req.host[1])

\* Faulty variant: the Host header is preferred to the URI authority.
HostOf_HeaderFirst(req) ==
    IF req.host # None /\ HeaderToStr(req.host[1]) # None
    THEN HeaderToStr(req.host[1])
    ELSE IF req.authority # None THEN req.authority ELSE Some(<<>>)

\* The host string of Proxy::call: the URI authority, or else the Host
\* header (Some("") when the header is absent, None when it does not
\* decode).
HostOf(req) ==
    IF req.authority # None THEN req.authority
    ELSE IF req.host = None THEN Some(<<>>)
         ELSE HeaderToStr(req.host[1])

\* Faulty variant: a host no route matches is forwarded to the first route.
call_DefaultRoute(secure, routes, req) ==
    LET host == HostOf(req) IN
    IF host = None THEN not_found(FALSE)
    ELSE IF ~secure THEN redirect_to_https(req, host[1])
    ELSE LET i == FindRoute(routes, host[1])
             j == IF i # 0 \/ routes = <<>> THEN i ELSE 1
         IN
         IF j # 0
         THEN IF AllEqualValue(req.upgrade) = Some("websocket")
              THEN upgrade(req, host[1], routes[j].address)
              ELSE forward(req, host[1], routes[j].address)
         ELSE not_found(TRUE)

\* Faulty variant: the plaintext Proxy routes like the secure one.
call_IgnoresSecure(secure, routes, req) ==
    LET host == HostOf(req) IN
    IF host = None THEN not_found(FALSE)
    ELSE LET i == FindRoute(routes, host[1]) IN
         IF i # 0
         THEN IF AllEqualValue(req.upgrade) = Some("websocket")
              THEN upgrade(req, host[1], routes[i].address)
              ELSE forward(req, host[1], routes[i].address)
         ELSE IF ~secure THEN redirect_to_https(req, host[1])
         ELSE not_found(TRUE)

\* Service::call for Proxy
call(secure, routes, req) ==
    LET host == HostOf(req) IN
    IF host = None THEN not_found(FALSE)
    ELSE IF ~secure THEN redirect_to_https(req, host[1])
    ELSE LET i == FindRoute(routes, host[1]) IN
         IF i # 0
         THEN IF AllEqualValue(req.upgrade) = Some("websocket")
              THEN upgrade(req, host[1], routes[i].address)
              ELSE forward(req, host[1], routes[i].address)
         ELSE not_found(TRUE)

\* ------------------------------------------------------ request inputs
Authorities == {None, Some(<<"a", "b">>)}
HostHeaders == {None, Some(<<"b">>), Some(<<OBS>>)}
PathAndQueries == {None, Some(<<"/">>), Some(<<"/", DEL>>)}
UpgradeHeaders == { <<>>, <<"websocket">>, <<"websocket", "websocket">>,
                    <<"websocket", "h2c">>, <<"Websocket">> }

Requests ==
    [authority : Authorities, host : HostHeaders,
     path_and_query : PathAndQueries, upgrade : UpgradeHeaders]

\* ----------------------------------------------- the outbound request
\* A HeaderMap restricted to the headers the proxy touches: for each name
\* the list of its values (get_all), in order.
Headers(req) ==
    [host |-> req.host, upgrade |-> req.upgrade, cookie |-> req.cookie,
     connection |-> req.connection, keep_alive |-> req.keep_alive]

HTTP_11 == "HTTP/1.1"
CookieSeparator == <<";", " ">>

\* Itertools::intersperse: the separator between every two elements.
RECURSIVE Intersperse(_, _)
Intersperse(vals, sep) ==
    IF Len(vals) <= 1 THEN vals
    ELSE <<vals[1], sep>> \o Intersperse(Tail(vals), sep)

\* Iterator::flatten().cloned().collect::<Vec<u8>>()
RECURSIVE Flatten(_)
Flatten(ss) == IF ss = <<>> THEN <<>> ELSE ss[1] \o Flatten(Tail(ss))

\* Faulty variant: the Cookie values are joined with ";" only.
merge_cookie_headers_NoSpace(map) ==
    [map EXCEPT !.cookie = << Flatten(Intersperse(map.cookie, <<";">>)) >>]

\* Faulty variant: a map without Cookie headers is left without one.
merge_cookie_headers_SkipEmpty(map) ==
    IF map.cookie = <<>> THEN map
    ELSE [map EXCEPT
            !.cookie = << Flatten(Intersperse(map.cookie, CookieSeparator)) >>]

\* Proxy::merge_cookie_headers: insert replaces every Cookie header by one
\* whose value is the joined values.
merge_cookie_headers(map) ==
    [map EXCEPT
       !.cookie = << Flatten(Intersperse(map.cookie, CookieSeparator)) >>]

\* if let Ok(value) = host.parse::<HeaderValue>() { insert(HOST, value) }
InsertHost(map, host) ==
    IF ParseHeaderValue(host) # None
    THEN [map EXCEPT !.host = ParseHeaderValue(host)]
    ELSE map

\* Faulty variant: the Upgrade header is not removed.
ForwardOutReq_KeepsUpgrade(in_req, host) ==
    IF in_req.path_and_query = None THEN None
    ELSE Some([version |-> HTTP_11,
               uri |-> in_req.path_and_query[1],
               body |-> "Incoming",
               headers |->
                 merge_cookie_headers(
                   InsertHost([Headers(in_req) EXCEPT !.keep_alive = <<>>,
                                                      !.connection = <<>>],
                              host))])

\* Proxy::forward, lines 98-113: the rewritten request, or None when
\* path_and_query().unwrap() panics.
ForwardOutReq(in_req, host) ==
    IF in_req.path_and_query = None THEN None
    ELSE Some([version |-> HTTP_11,
               uri |-> in_req.path_and_query[1],
               body |-> "Incoming",
               headers |->
                 merge_cookie_headers(
                   InsertHost([Headers(in_req) EXCEPT !.keep_alive = <<>>,
                                                      !.connection = <<>>,
                                                      !.upgrade = <<>>],
                              host))])

\* Faulty variant: Connection: Upgrade is appended to the inbound values.
UpgradeOutReq_Append(in_req, host) ==
    IF in_req.path_and_query = None THEN None
    ELSE Some([version |-> HTTP_11,
               uri |-> in_req.path_and_query[1],
               body |-> "Empty",
               headers |->
                 merge_cookie_headers(
                   InsertHost([Headers(in_req) EXCEPT
                                 !.keep_alive = <<>>,
                                 !.connection = @ \o <<"Upgrade">>],
                              host))])

\* Proxy::upgrade, lines 130-149: the fresh request with the inbound
\* headers, or None when path_and_query().unwrap() panics.
UpgradeOutReq(in_req, host) ==
    IF in_req.path_and_query = None THEN None
    ELSE Some([version |-> HTTP_11,
               uri |-> in_req.path_and_query[1],
               body |-> "Empty",
               headers |->
                 merge_cookie_headers(
                   InsertHost([Headers(in_req) EXCEPT
                                 !.keep_alive = <<>>,
                                 !.connection = <<"Upgrade">>],
                              host))])

\* The requests the forwarding engine is exercised with.
CookieHeaders == { <<>>, << <<"x">> >>, << <<"x">>, <<"y">> >> }
ConnectionHeaders == { <<>>, <<"keep-alive">>, <<"close", "Upgrade">> }
KeepAliveHeaders == { <<>>, <<"timeout=5">> }

EngineRequests ==
    [authority : Authorities, host : {None, Some(<<"b">>)},
     path_and_query : {None, Some(<<"/">>)},
     upgrade : { <<>>, <<"websocket">>, <<"websocket", "h2c">> },
     cookie : CookieHeaders, connection : ConnectionHeaders,
     keep_alive : KeepAliveHeaders]

\* ---------------------------------------------------------------- state
\* No Forward or Upgrade future exists.
IdleEngine ==
    [pc |-> "idle", kind |-> "None", in_req |-> None, out_req |-> None,
     address |-> None, dials |-> 0, sends |-> 0, failed |-> "None",
     result |-> "None", response |-> None]

\* No tunnel task has been spawned.
NoTunnel ==
    [pc |-> "none", res_upgrade |-> "pending", req_upgrade |-> "pending",
     a_to_b |-> "Running", b_to_a |-> "Running",
     copied_a_to_b |-> 0, copied_b_to_a |-> 0, result |-> "None"]

\* The process is serving (run is past "Server started").
Running == [pc |-> "running", step |-> 0, run_result |-> "None",
            stderr |-> "", exit_code |-> -1]

FreeConn == [state |-> "Free", config |-> None, session |-> None,
             io |-> "None"]

Init ==
    /\ \E content \in ConfigFiles :
          /\ dynamic_config = DynamicConfigLoad(content, 0)
          /\ server_config = ServerConfigLoad(DynamicConfigLoad(content, 0))
    /\ reload_pc = "recv"
    /\ loads = 0
    /\ at_recv = None
    /\ log = "Server started"
    /\ conns = [c \in ConnIds |-> FreeConn]
    /\ last = None
    /\ eng = IdleEngine
    /\ tunnel = NoTunnel
    /\ proc = Running

\* ---------------------------------------------------- the reload task
\* at_recv records, for the reload in progress or last finished, the live
\* pair when the signal was received and what reading the file gave.
\* server.rs 84-92: a SIGHUP arrives, DynamicConfig::load runs and, on Ok,
\* the result is written through the dynamic_config lock.
ReloadDynamicConfig ==
    /\ reload_pc = "recv"
    /\ last = None
    /\ loads < MaxLoads
    /\ loads' = loads + 1
    /\ \E content \in FileContents :
          /\ at_recv' = Some([dynamic_config |-> dynamic_config,
                              server_config |-> server_config,
                              loaded |-> content])
          /\ IF content = None
             THEN /\ log' = "Failed to reload config"
                  /\ reload_pc' = "recv"
                  /\ UNCHANGED dynamic_config
             ELSE /\ dynamic_config' = DynamicConfigLoad(content[1], loads + 1)
                  /\ reload_pc' = "load_server_config"
                  /\ UNCHANGED log
    /\ UNCHANGED <<server_config, conns, last>>
    /\ UNCHANGED <<eng, tunnel, proc>>

\* server.rs 94-102: load_server_config reads the live dynamic config; on
\* Ok the result is written through the server_config lock.
ReloadServerConfig ==
    /\ reload_pc = "load_server_config"
    /\ last = None
    /\ \E certs_ok \in BOOLEAN :
          IF certs_ok
          THEN /\ server_config' = ServerConfigLoad(dynamic_config)
               /\ log' = "Config reloaded successfully"
          ELSE /\ log' = "Failed to reload config"
               /\ UNCHANGED server_config
    /\ reload_pc' = "recv"
    /\ UNCHANGED <<dynamic_config, loads, at_recv, conns, last>>
    /\ UNCHANGED <<eng, tunnel, proc>>

\* ------------------------------------------------------- the acceptor
\* The operations that drive a stream's handshake.
IoOps == {"read", "write"}

\* TlsStream::new: the live credentials are cloned into the accept future.
TlsStreamNew(config) ==
    [state |-> "Handshaking", config |-> Some(config), session |-> None,
     io |-> "Pending"]

\* TlsAcceptor::poll_accept, Some(Ok(sock))
PollAccept(c) ==
    /\ conns[c].state = "Free"
    /\ last = None
    /\ \A d \in ConnIds : d < c => conns[d].state # "Free"
    /\ conns' = [conns EXCEPT ![c] = TlsStreamNew(server_config)]
    /\ UNCHANGED <<dynamic_config, server_config, reload_pc, loads,
                   at_recv, log, last>>
    /\ UNCHANGED <<eng, tunnel, proc>>

\* Faulty variant: the handshake reads the credentials through the shared
\* lock when it is driven instead of using the clone.
HandshakeConfig_Live(conn) == Some(server_config)

\* The credentials the accept future of a Handshaking stream handshakes
\* with.
HandshakeConfig(conn) == conn.config

\* Faulty variant: on Ok the operation runs on the new session but the
\* stream is left in Handshaking.
HandshakePolled_Stays(conn, op, res) ==
    CASE res = "Ok" -> [conn EXCEPT !.session = HandshakeConfig(conn),
                                    !.io = op]
      [] res = "Err" -> [conn EXCEPT !.io = "Err"]
      [] OTHER -> conn

\* Faulty variant: the stream is moved to Streaming before the result of
\* the accept future is looked at.
HandshakePolled_Early(conn, op, res) ==
    CASE res = "Ok" -> [state |-> "Streaming", config |-> conn.config,
                        session |-> HandshakeConfig(conn), io |-> op]
      [] res = "Err" -> [conn EXCEPT !.state = "Streaming", !.io = "Err"]
      [] OTHER -> conn

\* The match on ready!(Pin::new(accept).poll(cx)) in poll_read and
\* poll_write: Ok(stream) runs the same operation on the stream and stores
\* State::Streaming(stream); Err(err) is returned; Pending returns early.
HandshakePolled(conn, op, res) ==
    CASE res = "Ok" -> [state |-> "Streaming", config |-> conn.config,
                        session |-> HandshakeConfig(conn), io |-> op]
      [] res = "Err" -> [conn EXCEPT !.io = "Err"]
      [] OTHER -> conn

\* TlsStream::poll_read / poll_write in Handshaking.  After an Err the
\* server stops polling the stream.
PollHandshake(c, op) ==
    /\ conns[c].state = "Handshaking"
    /\ last = None
    /\ conns[c].io # "Err"
    /\ \E res \in {"Ok", "Err", "Pending"} :
          conns' = [conns EXCEPT ![c] = HandshakePolled(@, op, res)]
    /\ UNCHANGED <<dynamic_config, server_config, reload_pc, loads,
                   at_recv, log, last>>
    /\ UNCHANGED <<eng, tunnel, proc>>

\* TlsStream::poll_read / poll_write in Streaming: delegated to the
\* established session.
PollStream(c, op) ==
    /\ conns[c].state = "Streaming"
    /\ last = None
    /\ conns' = [conns EXCEPT ![c].io = op]
    /\ UNCHANGED <<dynamic_config, server_config, reload_pc, loads,
                   at_recv, log, last>>
    /\ UNCHANGED <<eng, tunnel, proc>>

\* The connection task ends and its stream is dropped.
DropConn(c) ==
    /\ conns[c].state # "Free"
    /\ last = None
    /\ conns' = [conns EXCEPT ![c] = FreeConn]
    /\ UNCHANGED <<dynamic_config, server_config, reload_pc, loads,
                   at_recv, log, last>>
    /\ UNCHANGED <<eng, tunnel, proc>>

\* ------------------------------------------------------- the services
\* Faulty variant: the Proxy keeps reading the table that was live before
\* the latest reload.
LiveRoutes_Stale ==
    IF at_recv = None THEN dynamic_config.routes
    ELSE at_recv[1].dynamic_config.routes

\* The routing table a secure Proxy reads through its lock.
LiveRoutes == dynamic_config.routes

\* A request on the plaintext port (Proxy::new_unsecure).
CallHttp(req) ==
    /\ last = None
    /\ last' = Some([secure |-> FALSE, conn |-> 0, req |-> req,
                     out |-> call(FALSE, LiveRoutes, req)])
    /\ UNCHANGED <<dynamic_config, server_config, reload_pc, loads,
                   at_recv, log, conns>>
    /\ UNCHANGED <<eng, tunnel, proc>>

\* A request on an established TLS connection (Proxy::new_secure).
CallHttps(c, req) ==
    /\ conns[c].state = "Streaming"
    /\ last = None
    /\ last' = Some([secure |-> TRUE, conn |-> c, req |-> req,
                     out |-> call(TRUE, LiveRoutes, req)])
    /\ UNCHANGED <<dynamic_config, server_config, reload_pc, loads,
                   at_recv, log, conns>>
    /\ UNCHANGED <<eng, tunnel, proc>>

\* The handler's future is polled to completion and its result leaves the
\* service.  last only records the latest call and every other step waits
\* for it to be cleared (their guard last = None); as this step is always
\* enabled then and changes nothing else, that removes no behaviour of the
\* program's own state.
Respond ==
    /\ last # None
    /\ last' = None
    /\ UNCHANGED <<dynamic_config, server_config, reload_pc, loads,
                   at_recv, log, conns>>
    /\ UNCHANGED <<eng, tunnel, proc>>

Next ==
    \/ ReloadDynamicConfig
    \/ ReloadServerConfig
    \/ \E c \in ConnIds : PollAccept(c)
    \/ \E c \in ConnIds, op \in IoOps : PollHandshake(c, op)
    \/ \E c \in ConnIds, op \in IoOps : PollStream(c, op)
    \/ \E c \in ConnIds : DropConn(c)
    \/ \E req \in Requests : CallHttp(req)
    \/ \E c \in ConnIds, req \in Requests : CallHttps(c, req)
    \/ Respond

Spec == Init /\ [][Next]_vars

\* ------------------------------------------- the forwarding engine
\* The Forward or Upgrade future of one request on the HTTPS port and the
\* tunnel task it spawns, run against the routing table of Init.
serving_vars == <<dynamic_config, server_config, reload_pc, loads, at_recv,
                  log, conns, last, proc>>

BackendResponses ==
    { [status |-> 101, version |-> HTTP_11, headers |-> "upgrade"],
      [status |-> 200, version |-> "HTTP/1.0", headers |-> "plain"] }

\* Proxy::call dispatching to forward or upgrade: the outbound request is
\* built before the future is returned.
EngCall(req) ==
    /\ eng.pc = "idle"
    /\ LET out == call(TRUE, LiveRoutes, req)
           host == HostOf(req)[1]
       IN  /\ out.disposition \in {"Forward", "Upgrade"}
           /\ LET out_req == IF out.disposition = "Forward"
                             THEN ForwardOutReq(req, host)
                             ELSE UpgradeOutReq(req, host)
              IN  eng' = [IdleEngine EXCEPT
                            !.pc = IF out_req = None THEN "panicked"
                                   ELSE "connect",
                            !.kind = out.disposition,
                            !.in_req = Some(req),
                            !.out_req = out_req,
                            !.address = out.backend]
    /\ UNCHANGED <<tunnel, serving_vars>>

\* Faulty variant: a failed step is answered with a synthesised 502.
EngFailure_BadGateway(e, step) ==
    [e EXCEPT !.pc = "done", !.failed = step, !.result = "Ok",
              !.response = Some([status |-> 502, version |-> HTTP_11,
                                 headers |-> "plain", body |-> "Empty"])]

\* The `?` of the async block: the future resolves to Err.
EngFailure(e, step) ==
    [e EXCEPT !.pc = "done", !.failed = step, !.result = "Err"]

\* TcpStream::connect(address).await?
EngConnect ==
    /\ eng.pc = "connect"
    /\ \E ok \in BOOLEAN :
          eng' = IF ok
                 THEN [eng EXCEPT !.pc = "handshake", !.dials = @ + 1]
                 ELSE EngFailure([eng EXCEPT !.dials = @ + 1], "connect")
    /\ UNCHANGED <<tunnel, serving_vars>>

\* http1::handshake(TokioIo::new(stream)).await?; tokio::spawn(conn)
EngHandshake ==
    /\ eng.pc = "handshake"
    /\ \E ok \in BOOLEAN :
          eng' = IF ok THEN [eng EXCEPT !.pc = "send"]
                 ELSE EngFailure(eng, "handshake")
    /\ UNCHANGED <<tunnel, serving_vars>>

\* Faulty variant: the tunnel task starts copying without awaiting the
\* two upgrades.
SpawnTunnel_NoJoin == [NoTunnel EXCEPT !.pc = "copy"]

\* tokio::spawn of the tunnel task: it starts at the try_join!.
SpawnTunnel == [NoTunnel EXCEPT !.pc = "join"]

\* sender.send_request(out_req).await? and the Ok(..) that follows: Forward
\* maps the backend response's body, Upgrade copies status, version and
\* headers onto an empty body and spawns the tunnel task.
EngSend ==
    /\ eng.pc = "send"
    /\ \E in_res \in {None} \cup {Some(r) : r \in BackendResponses} :
          IF in_res = None
          THEN /\ eng' = EngFailure([eng EXCEPT !.sends = @ + 1], "send")
               /\ UNCHANGED tunnel
          ELSE /\ eng' = [eng EXCEPT
                            !.pc = "done", !.sends = @ + 1, !.result = "Ok",
                            !.response =
                               Some([status |-> in_res[1].status,
                                     version |-> in_res[1].version,
                                     headers |-> in_res[1].headers,
                                     body |-> IF eng.kind = "Forward"
                                              THEN "Incoming" ELSE "Empty"])]
               /\ tunnel' = IF eng.kind = "Upgrade" THEN SpawnTunnel
                            ELSE tunnel
    /\ UNCHANGED serving_vars

\* try_join!(hyper::upgrade::on(in_res), hyper::upgrade::on(in_req))?: the
\* first Err ends the task, two Ok values start the copy.
JoinStep(t, side, ok) ==
    IF ~ok THEN [t EXCEPT ![side] = "err", !.pc = "ended", !.result = "Err"]
    ELSE LET u == [t EXCEPT ![side] = "ok"] IN
         IF u.res_upgrade = "ok" /\ u.req_upgrade = "ok"
         THEN [u EXCEPT !.pc = "copy"] ELSE u

\* hyper::upgrade::on(in_res) completes.
TunnelResUpgrade ==
    /\ tunnel.pc = "join" /\ tunnel.res_upgrade = "pending"
    /\ \E ok \in BOOLEAN : tunnel' = JoinStep(tunnel, "res_upgrade", ok)
    /\ UNCHANGED <<eng, serving_vars>>

\* hyper::upgrade::on(in_req) completes.
TunnelReqUpgrade ==
    /\ tunnel.pc = "join" /\ tunnel.req_upgrade = "pending"
    /\ \E ok \in BOOLEAN : tunnel' = JoinStep(tunnel, "req_upgrade", ok)
    /\ UNCHANGED <<eng, serving_vars>>

\* tokio::io::copy_bidirectional(a, b), a the backend side and b the client
\* side: one byte read from a is written to b.
TunnelCopyAToB ==
    /\ tunnel.pc = "copy" /\ tunnel.a_to_b = "Running"
    /\ tunnel.copied_a_to_b < MaxBytes
    /\ tunnel' = [tunnel EXCEPT !.copied_a_to_b = @ + 1]
    /\ UNCHANGED <<eng, serving_vars>>

\* One byte read from b is written to a.
TunnelCopyBToA ==
    /\ tunnel.pc = "copy" /\ tunnel.b_to_a = "Running"
    /\ tunnel.copied_b_to_a < MaxBytes
    /\ tunnel' = [tunnel EXCEPT !.copied_b_to_a = @ + 1]
    /\ UNCHANGED <<eng, serving_vars>>

\* Faulty variant: the first end-of-stream ends the whole copy.
AfterEof_Stop(t, dir) ==
    [t EXCEPT ![dir] = "Done", !.pc = "ended", !.result = "Ok"]

\* copy_bidirectional on end-of-stream in one direction: the opposite
\* writer is shut down and that direction is done; the future completes
\* once both directions are done.
AfterEof(t, dir) ==
    LET u == [t EXCEPT ![dir] = "Done"] IN
    IF u.a_to_b = "Done" /\ u.b_to_a = "Done"
    THEN [u EXCEPT !.pc = "ended", !.result = "Ok"] ELSE u

\* A read in one direction returns end-of-stream.
TunnelEof ==
    /\ tunnel.pc = "copy"
    /\ \E dir \in {"a_to_b", "b_to_a"} :
          /\ tunnel[dir] = "Running"
          /\ tunnel' = AfterEof(tunnel, dir)
    /\ UNCHANGED <<eng, serving_vars>>

\* A read, write or shutdown on either side fails: copy_bidirectional
\* returns the error and the task ends.
TunnelError ==
    /\ tunnel.pc = "copy"
    /\ tunnel' = [tunnel EXCEPT !.pc = "ended", !.result = "Err"]
    /\ UNCHANGED <<eng, serving_vars>>

NextEngine ==
    \/ \E req \in EngineRequests : EngCall(req)
    \/ EngConnect
    \/ EngHandshake
    \/ EngSend
    \/ TunnelResUpgrade
    \/ TunnelReqUpgrade
    \/ TunnelCopyAToB
    \/ TunnelCopyBToA
    \/ TunnelEof
    \/ TunnelError

SpecEngine == Init /\ [][NextEngine]_vars

\* ------------------------------------------------- startup and exit
\* The fallible steps of run before "Server started", in order.
StartupSteps ==
    << "static_config", "dynamic_config", "server_config", "bind_http",
       "bind_https" >>

\* main: an Err of server::run is printed to stderr and main returns; an Ok
\* returns as well.  Returning from main exits with status 0.
MainExit(run_result) ==
    [pc |-> "exited", step |-> 0, run_result |-> run_result,
     stderr |-> IF run_result = "Ok" THEN "" ELSE run_result,
     exit_code |-> 0]

\* The process before run has loaded anything.
InitMain ==
    /\ proc = [pc |-> "starting", step |-> 1, run_result |-> "None",
               stderr |-> "", exit_code |-> -1]
    /\ dynamic_config = [load |-> 0, cert_file |-> "", routes |-> <<>>]
    /\ server_config = [load |-> 0, cert |-> ""]
    /\ reload_pc = "recv"
    /\ loads = 0
    /\ at_recv = None
    /\ log = ""
    /\ conns = [c \in ConnIds |-> FreeConn]
    /\ last = None
    /\ eng = IdleEngine
    /\ tunnel = NoTunnel

\* server.rs 28-42: one startup step; its `?` returns the error from run,
\* the last one is followed by "Server started".
StartupStep ==
    /\ proc.pc = "starting"
    /\ \E content \in FileContents, ok \in BOOLEAN :
          LET name == StartupSteps[proc.step]
              failed == IF name = "dynamic_config" THEN content = None
                        ELSE ~ok
          IN
          IF failed
          THEN /\ proc' = MainExit(name)
               /\ UNCHANGED <<dynamic_config, server_config, log>>
          ELSE /\ proc' = IF proc.step = Len(StartupSteps)
                          THEN [proc EXCEPT !.pc = "running", !.step = 0]
                          ELSE [proc EXCEPT !.step = @ + 1]
               /\ dynamic_config' =
                     IF name = "dynamic_config"
                     THEN DynamicConfigLoad(content[1], 0)
                     ELSE dynamic_config
               /\ server_config' =
                     IF name = "server_config"
                     THEN ServerConfigLoad(dynamic_config)
                     ELSE server_config
               /\ log' = IF proc.step = Len(StartupSteps)
                         THEN "Server started" ELSE log
    /\ UNCHANGED <<reload_pc, loads, at_recv, conns, last, eng, tunnel>>

\* server.rs 106-110: ctrl_c resolves, "Server stopped", run returns Ok(()).
CtrlC ==
    /\ proc.pc = "running"
    /\ last = None
    /\ proc' = MainExit("Ok")
    /\ log' = "Server stopped"
    /\ UNCHANGED <<dynamic_config, server_config, reload_pc, loads,
                   at_recv, conns, last, eng, tunnel>>

\* The tasks run spawned are served while the process runs.
Serve == proc.pc = "running" /\ Next

NextMain ==
    \/ StartupStep
    \/ CtrlC
    \/ Serve

SpecMain == InitMain /\ [][NextMain]_vars

\* ================================================================ claims
ReloadSucceeded ==
    reload_pc = "recv" /\ log = "Config reloaded successfully"

ReloadFailed ==
    reload_pc = "recv" /\ log = "Failed to reload config"

\* C1: at every point where a lookup or a credential clone can interleave
\* with the reloader, the live routing table and the live TLS credentials
\* come from the same load.
C1_CoherentSnapshot == server_config.load = dynamic_config.load

\* C2: after a failed reload (config file or TLS credentials) the live
\* routing table and the live credentials are what they were when the
\* signal was received.
C2_FailedReloadKeepsSnapshot ==
    (ReloadFailed /\ at_recv # None) =>
        /\ dynamic_config = at_recv[1].dynamic_config
        /\ server_config = at_recv[1].server_config

\* C3: once a reload has completed successfully, a lookup that starts
\* afterwards is decided by the routing table that reload loaded: NotFound
\* for a host it does not match, the new backend for a host it matches.
C3_LookupAfterReloadUsesNewTable ==
    (ReloadSucceeded /\ last # None /\ last[1].secure) =>
        LET new_routes == at_recv[1].loaded[1].routes
            host == HostOf(last[1].req)
            i == IF host = None THEN 0 ELSE FindRoute(new_routes, host[1])
        IN  IF i = 0
            THEN /\ last[1].out.disposition = "NotFound"
                 /\ last[1].out.status = NOT_FOUND
            ELSE /\ last[1].out.disposition \in {"Forward", "Upgrade"}
                 /\ last[1].out.backend = Some(new_routes[i].address)

\* C3 witness: after a successful reload a host that the old table matched
\* and the new one does not is answered 404.
C3_Witness ==
    /\ ReloadSucceeded /\ last # None /\ last[1].secure
    /\ HostOf(last[1].req) # None
    /\ FindRoute(at_recv[1].dynamic_config.routes,
                 HostOf(last[1].req)[1]) # 0
    /\ last[1].out.disposition = "NotFound"

\* C4: a connection's credentials are the ones live when it was accepted;
\* no later step (a reload in particular) changes them, and the session it
\* establishes uses them.
C4_CredentialsFixedAtAcceptance ==
    [][\A c \in ConnIds :
         /\ (conns[c].state = "Free" /\ conns'[c].state # "Free") =>
                conns'[c].config = Some(server_config)
         /\ (conns[c].state # "Free" /\ conns'[c].state # "Free") =>
                /\ conns'[c].config = conns[c].config
                /\ (conns'[c].state = "Streaming" =>
                       conns'[c].session = conns[c].config)]_vars

\* C4 witness: an established session whose credentials are no longer the
\* live ones.
C4_Witness ==
    \E c \in ConnIds :
        /\ conns[c].state = "Streaming"
        /\ conns[c].session # Some(server_config)

\* ------------------------------------------------ the request classifier
Called == last # None
Req == last[1].req
Out == last[1].out
OnHttp == Called /\ ~last[1].secure
OnHttps == Called /\ last[1].secure

PathOf(req) ==
    IF req.path_and_query = None THEN <<>> ELSE req.path_and_query[1]

Matching(routes, host) ==
    {i \in 1..Len(routes) : WildMatches(routes[i].host, host)}

Min(S) == CHOOSE x \in S : \A y \in S : x <= y

LocationOnly(value) == << [name |-> "location", value |-> value] >>

\* C5 as stated: every request on the HTTP port with a derivable host is
\* answered 301 with an empty body and the single header
\* Location: "https://" + host + path_and_query, without the routing table.
C5_Original ==
    (OnHttp /\ HostOf(Req) # None) =>
        /\ Out.ok /\ Out.status = MOVED_PERMANENTLY /\ Out.body = ""
        /\ Out.headers =
             LocationOnly(HttpsPrefix \o HostOf(Req)[1] \o PathOf(Req))
        /\ ~Out.read_routes

\* C5 amended: on the HTTP port with a derivable host the routing table is
\* not read and no backend is dialled; when "https://" + host +
\* path_and_query is a valid header value the response is 301 with an
\* empty body and that single Location header, otherwise the handler ends
\* in an error.
C5_Redirect ==
    (OnHttp /\ HostOf(Req) # None) =>
        LET location == HttpsPrefix \o HostOf(Req)[1] \o PathOf(Req) IN
        /\ Out.disposition = "Redirect"
        /\ ~Out.read_routes /\ Out.backend = None
        /\ IF \A k \in 1..Len(location) : IsValidHeaderByte(location[k])
           THEN /\ Out.ok /\ Out.status = MOVED_PERMANENTLY
                /\ Out.body = ""
                /\ Out.headers = LocationOnly(location)
           ELSE ~Out.ok

\* C5 witness: a plaintext request with a path is redirected.
C5_Witness ==
    /\ OnHttp /\ Req.host = Some(<<"b">>) /\ Req.authority = None
    /\ Req.path_and_query = Some(<<"/">>)
    /\ Out.status = MOVED_PERMANENTLY

\* C6: on the HTTPS port a host string that no pattern of the live table
\* matches is answered 404 with body "404 Not Found" and no backend is
\* dialled.
C6_NoRouteIsNotFound ==
    (OnHttps /\ HostOf(Req) # None
       /\ Matching(LiveRoutes, HostOf(Req)[1]) = {}) =>
        /\ Out.ok /\ Out.status = 404 /\ Out.body = "404 Not Found"
        /\ Out.backend = None

\* C6 witness: a secure request whose host the live table does not match.
C6_Witness ==
    /\ OnHttps /\ HostOf(Req) = Some(<<"a", "b">>)
    /\ Matching(LiveRoutes, <<"a", "b">>) = {}
    /\ Out.read_routes /\ Out.disposition = "NotFound"

\* C7: the backend chosen is the address of the lowest-index route whose
\* pattern matches the whole host, also when a later route matches more
\* specifically.
C7_FirstMatchWins ==
    (OnHttps /\ HostOf(Req) # None
       /\ Matching(LiveRoutes, HostOf(Req)[1]) # {}) =>
        Out.backend =
            Some(LiveRoutes[Min(Matching(LiveRoutes, HostOf(Req)[1]))].address)

\* C7 witness: two routes match and the later one is the host itself.
C7_Witness ==
    /\ OnHttps /\ HostOf(Req) # None
    /\ \E i, j \in Matching(LiveRoutes, HostOf(Req)[1]) :
          /\ i < j
          /\ LiveRoutes[j].host = HostOf(Req)[1]
          /\ LiveRoutes[i].host # HostOf(Req)[1]
          /\ Out.backend = Some(LiveRoutes[i].address)

\* C8: with a matching route on the HTTPS port the disposition is Upgrade
\* exactly when there is at least one Upgrade value and every Upgrade value
\* is the literal "websocket"; otherwise it is Forward.
C8_UpgradeIffAllWebsocket ==
    (OnHttps /\ HostOf(Req) # None
       /\ Matching(LiveRoutes, HostOf(Req)[1]) # {}) =>
        IF /\ Len(Req.upgrade) >= 1
           /\ \A k \in 1..Len(Req.upgrade) : Req.upgrade[k] = "websocket"
        THEN Out.disposition = "Upgrade"
        ELSE Out.disposition = "Forward"

\* C8 witness: websocket next to a disagreeing Upgrade value is forwarded.
C8_Witness ==
    /\ OnHttps /\ Req.upgrade = <<"websocket", "h2c">>
    /\ Out.disposition = "Forward"

\* C9 as stated: with neither a URI authority nor a Host header the
\* disposition is NotFound on both ports.
C9_Original ==
    (Called /\ Req.authority = None /\ Req.host = None) =>
        Out.disposition = "NotFound"

\* C9 amended: without a URI authority, a Host header that does not decode
\* to a string gives NotFound on both ports without reading the routing
\* table; an absent Host header gives the empty host string, which the
\* HTTP port redirects to "https://" + path_and_query and the HTTPS port
\* looks up in the routing table like any other host.
C9_NoHost ==
    (Called /\ Req.authority = None) =>
        /\ (Req.host # None /\ HeaderToStr(Req.host[1]) = None) =>
               /\ Out.disposition = "NotFound" /\ Out.status = NOT_FOUND
               /\ ~Out.read_routes
        /\ (Req.host = None /\ OnHttp) =>
               /\ Out.disposition = "Redirect"
               /\ Out.ok => Out.headers =
                               LocationOnly(HttpsPrefix \o PathOf(Req))
        /\ (Req.host = None /\ OnHttps) =>
               /\ Out.read_routes
               /\ Out.disposition = "NotFound"
                     <=> Matching(LiveRoutes, <<>>) = {}

\* C9 witness: a plaintext request with neither authority nor Host header
\* is redirected.
C9_Witness ==
    /\ OnHttp /\ Req.authority = None /\ Req.host = None
    /\ Out.disposition = "Redirect" /\ Out.status = MOVED_PERMANENTLY

\* What a call decided by host string h looks like: the Location names h
\* on the HTTP port, the backend is h's first match on the HTTPS port.
DecidedBy(h) ==
    IF OnHttp
    THEN Out.ok => Out.headers = LocationOnly(HttpsPrefix \o h \o PathOf(Req))
    ELSE Out.backend =
           IF Matching(LiveRoutes, h) = {} THEN None
           ELSE Some(LiveRoutes[Min(Matching(LiveRoutes, h))].address)

\* C10: redirecting and routing use the URI authority whenever the URI has
\* one, whatever the Host header says; the Host header is used only when
\* the URI has no authority.
C10_AuthorityPrecedence ==
    Called =>
        /\ Req.authority # None => DecidedBy(Req.authority[1])
        /\ (Req.authority = None /\ Req.host # None
              /\ HeaderToStr(Req.host[1]) # None) =>
               DecidedBy(Req.host[1])

\* C10 witness: authority and Host header disagree and the authority's
\* route is taken.
C10_Witness ==
    /\ OnHttps /\ Req.authority = Some(<<"a", "b">>)
    /\ Req.host = Some(<<"b">>)
    /\ Matching(LiveRoutes, <<"b">>) # {}
    /\ Matching(LiveRoutes, <<"a", "b">>) # {}
    /\ Out.backend = Some(LiveRoutes[Min(Matching(LiveRoutes, <<"a", "b">>))].address)
    /\ Out.backend # Some(LiveRoutes[Min(Matching(LiveRoutes, <<"b">>))].address)

\* ------------------------------------------------ the outbound request
Forwarded == eng.kind = "Forward" /\ eng.out_req # None
Upgraded == eng.kind = "Upgrade" /\ eng.out_req # None
InReq == eng.in_req[1]
OutHeaders == eng.out_req[1].headers

\* C11: the outbound request of a Forward carries no Connection, no
\* Keep-Alive and no Upgrade header, whatever the inbound request had.
C11_ForwardStripsHopByHop ==
    Forwarded =>
        /\ OutHeaders.connection = <<>>
        /\ OutHeaders.keep_alive = <<>>
        /\ OutHeaders.upgrade = <<>>

\* C11 witness: a request with all three headers was forwarded and sent.
C11_Witness ==
    /\ Forwarded /\ eng.sends = 1
    /\ InReq.connection # <<>> /\ InReq.keep_alive # <<>>
    /\ InReq.upgrade # <<>>

\* C12: the outbound request of an Upgrade carries exactly one Connection
\* header, with value Upgrade, and no Keep-Alive header.
C12_UpgradeSetsConnection ==
    Upgraded =>
        /\ OutHeaders.connection = <<"Upgrade">>
        /\ OutHeaders.keep_alive = <<>>

\* C12 witness: an upgrade whose inbound request had other Connection
\* values and a Keep-Alive header was sent.
C12_Witness ==
    /\ Upgraded /\ eng.sends = 1
    /\ InReq.connection = <<"close", "Upgrade">>
    /\ InReq.keep_alive # <<>>

RECURSIVE JoinedWith(_, _)
JoinedWith(vals, sep) ==
    IF vals = <<>> THEN <<>>
    ELSE IF Len(vals) = 1 THEN vals[1]
    ELSE JoinedWith(SubSeq(vals, 1, Len(vals) - 1), sep)
           \o sep \o vals[Len(vals)]

\* C13: the outbound request of a Forward or an Upgrade has at most one
\* Cookie header, and its value is the inbound Cookie values joined with
\* "; " in their order.
C13_CookiesJoined ==
    (Forwarded \/ Upgraded) =>
        /\ Len(OutHeaders.cookie) <= 1
        /\ \A k \in 1..Len(OutHeaders.cookie) :
              OutHeaders.cookie[k] = JoinedWith(InReq.cookie, <<";", " ">>)

\* C13 witness: two inbound Cookie headers became one.
C13_Witness ==
    /\ Forwarded /\ Len(InReq.cookie) = 2
    /\ OutHeaders.cookie = << <<"x", ";", " ", "y">> >>

\* C14: a stream starts in Handshaking; the poll that completes the
\* handshake moves it to Streaming and runs that same read or write on the
\* session; while the handshake is pending it stays in Handshaking; a
\* Streaming stream never goes back to Handshaking.
C14_HandshakeThenStreaming ==
    [][\A c \in ConnIds :
         /\ (conns[c].state = "Free" /\ conns'[c].state # "Free") =>
                (conns'[c].state = "Handshaking" /\ conns'[c].session = None)
         /\ (conns[c].state = "Handshaking"
               /\ conns'[c].state = "Handshaking") =>
                conns'[c].session = None
         /\ (conns[c].session = None /\ conns'[c].session # None) =>
                /\ conns[c].state = "Handshaking"
                /\ conns'[c].state = "Streaming"
                /\ \A op \in IoOps :
                      PollHandshake(c, op) => conns'[c].io = op
         /\ conns[c].state = "Streaming" =>
                conns'[c].state \in {"Streaming", "Free"}]_vars

\* C14 witness: a write completed the handshake and ran on the session.
C14_Witness ==
    \E c \in ConnIds :
        /\ conns[c].state = "Streaming" /\ conns[c].io = "write"
        /\ conns[c].session # None

\* C15: after a failed handshake the read or write has returned an error,
\* the stream is not and never becomes Streaming, no request of that
\* connection is classified, and the only thing that still happens to the
\* stream is that it is dropped.
C15_FailedHandshake ==
    [][\A c \in ConnIds :
         /\ conns'[c].io = "Err" =>
                /\ conns'[c].state = "Handshaking"
                /\ conns'[c].session = None
                /\ (last' # None => last'[1].conn # c)
         /\ conns[c].io = "Err" => conns'[c] \in {conns[c], FreeConn}]_vars

\* C15 witness: a handshake has failed.
C15_Witness ==
    \E c \in ConnIds : conns[c].state = "Handshaking" /\ conns[c].io = "Err"

\* C16: when the dial, the client handshake or the send fails, the future
\* ends in Err with no response, after at most one dial and one send, and
\* nothing more is done for that request.
C16_BackendFailureIsError ==
    [][/\ eng'.failed # "None" =>
            /\ eng'.pc = "done" /\ eng'.result = "Err"
            /\ eng'.response = None
            /\ eng'.dials = 1
            /\ eng'.sends = (IF eng'.failed = "send" THEN 1 ELSE 0)
            /\ tunnel'.pc = "none"
       /\ eng.failed # "None" => (eng' = eng /\ tunnel' = tunnel)]_vars

\* C16 witness: the send failed after a successful dial.
C16_Witness ==
    eng.failed = "send" /\ eng.dials = 1 /\ eng.kind = "Upgrade"

\* C17 as stated: a rewritten Location or Host value that is not a valid
\* header value is skipped and the request still ends in a response.
C17_Original ==
    (Called /\ HostOf(Req) # None) =>
        IF OnHttp
        THEN ParseHeaderValue(HttpsPrefix \o HostOf(Req)[1] \o PathOf(Req))
               = None => (Out.ok /\ Out.headers = <<>>)
        ELSE ParseHeaderValue(HostOf(Req)[1]) = None => Out.ok

\* C17 amended: a Location value that is not a valid header value makes the
\* redirect end in an error, with no response; the Host value of a Forward
\* or an Upgrade is the host string call derived, which is always a valid
\* header value.
C17_InvalidHeaderValue ==
    (Called /\ HostOf(Req) # None) =>
        IF OnHttp
        THEN ParseHeaderValue(HttpsPrefix \o HostOf(Req)[1] \o PathOf(Req))
               = None =>
                 /\ ~Out.ok /\ Out.headers = <<>>
                 /\ Out.status # MOVED_PERMANENTLY
        ELSE \A k \in 1..Len(HostOf(Req)[1]) :
                 IsValidHeaderByte(HostOf(Req)[1][k])

\* C17 witness: a redirect whose Location would hold the byte 0x7f ended in
\* an error.
C17_Witness ==
    /\ OnHttp /\ HostOf(Req) # None
    /\ Req.path_and_query = Some(<<"/", DEL>>)
    /\ ~Out.ok

\* C18: the exit code is 0 after SIGINT and non-zero whenever a startup
\* step failed.
C18_ExitCode ==
    proc.pc = "exited" =>
        (proc.exit_code = 0 <=> proc.run_result = "Ok")

Copied == <<tunnel.copied_a_to_b, tunnel.copied_b_to_a>>

\* C19: an Upgrade returns the backend's status, version and headers on an
\* empty body while the tunnel task has only been spawned; the tunnel
\* copies a byte only after both upgrades completed, and after a failed
\* upgrade it has ended without copying any byte.
C19_UpgradeThenTunnel ==
    [][/\ (eng.kind = "Upgrade" /\ eng.pc = "send" /\ eng'.result = "Ok") =>
              /\ eng'.pc = "done"
              /\ eng'.response[1].body = "Empty"
              /\ [status |-> eng'.response[1].status,
                  version |-> eng'.response[1].version,
                  headers |-> eng'.response[1].headers] \in BackendResponses
              /\ tunnel'.pc = "join"
              /\ tunnel'.res_upgrade = "pending"
              /\ tunnel'.req_upgrade = "pending"
       /\ tunnel'.pc # "none" => (eng'.pc = "done" /\ eng'.result = "Ok")
       /\ Copied' # Copied =>
              (tunnel.res_upgrade = "ok" /\ tunnel.req_upgrade = "ok")
       /\ "err" \in {tunnel'.res_upgrade, tunnel'.req_upgrade} =>
              /\ tunnel'.pc = "ended"
              /\ Copied' = <<0, 0>>]_vars

\* C19 witness: the response was returned, the backend side upgraded, the
\* client side failed to upgrade and the tunnel task ended.
C19_Witness ==
    /\ eng.pc = "done" /\ eng.kind = "Upgrade" /\ eng.response # None
    /\ tunnel.res_upgrade = "ok" /\ tunnel.req_upgrade = "err"
    /\ tunnel.pc = "ended"

\* C20 as stated: once one direction reached end-of-stream or a side
\* failed, the tunnel has ended and no further byte is copied.
C20_Original ==
    [][(\/ tunnel.a_to_b = "Done"
        \/ tunnel.b_to_a = "Done"
        \/ tunnel.result = "Err") =>
          (tunnel.pc = "ended" /\ Copied' = Copied)]_vars

\* C20 amended: end-of-stream in one direction only finishes that
\* direction, the other one keeps copying; the tunnel ends when both
\* directions reached end-of-stream, or at once when a side fails; a
\* finished direction and an ended tunnel copy no further byte.
C20_HalfClose ==
    [][/\ (tunnel.pc = "copy" /\ tunnel'.pc = "copy") =>
              /\ tunnel.a_to_b = "Done" =>
                     (tunnel'.a_to_b = "Done"
                        /\ tunnel'.copied_a_to_b = tunnel.copied_a_to_b)
              /\ tunnel.b_to_a = "Done" =>
                     (tunnel'.b_to_a = "Done"
                        /\ tunnel'.copied_b_to_a = tunnel.copied_b_to_a)
       /\ (tunnel.pc = "copy" /\ tunnel.a_to_b = "Running"
              /\ tunnel.b_to_a = "Running" /\ tunnel'.result # "Err") =>
              tunnel'.pc = "copy"
       /\ (tunnel.pc = "copy" /\ tunnel'.pc = "ended") =>
              \/ tunnel'.result = "Err" /\ Copied' = Copied
              \/ /\ tunnel'.result = "Ok" /\ Copied' = Copied
                 /\ tunnel'.a_to_b = "Done" /\ tunnel'.b_to_a = "Done"
       /\ tunnel.pc = "ended" => tunnel' = tunnel]_vars

\* C20 witness: the backend-to-client direction reached end-of-stream and
\* the tunnel is still copying from the client to the backend.
C20_Witness ==
    /\ tunnel.pc = "copy"
    /\ tunnel.a_to_b = "Done" /\ tunnel.b_to_a = "Running"
    /\ tunnel.copied_b_to_a > 0

\* C21: a request on the plaintext port is never classified Forward or
\* Upgrade, whatever the live routing table is: no backend is chosen, the
\* routing table is not read, and the outcome is a redirect, NotFound or an
\* error of the redirect.
C21_PlaintextNeverProxied ==
    OnHttp =>
        /\ Out.disposition \in {"Redirect", "NotFound"}
        /\ Out.backend = None
        /\ ~Out.read_routes
        /\ ~Out.ok => (Out.disposition = "Redirect" /\ Out.headers = <<>>)

\* C21 witness: after a reload, a websocket request whose host the live
\* table routes arrived on the plaintext port and was redirected.
C21_Witness ==
    /\ OnHttp /\ loads > 0
    /\ HostOf(Req) # None
    /\ Matching(LiveRoutes, HostOf(Req)[1]) # {}
    /\ Req.upgrade = <<"websocket">>
    /\ Out.disposition = "Redirect"

\* C22: the outbound request of a Forward or an Upgrade carries exactly one
\* Cookie header; when the inbound request had none its value is empty.
C22_ExactlyOneCookie ==
    (Forwarded \/ Upgraded) =>
        /\ Len(OutHeaders.cookie) = 1
        /\ InReq.cookie = <<>> => OutHeaders.cookie = << <<>> >>

\* C22 witness: an Upgrade of a request without Cookie headers was rewritten
\* and carries one empty Cookie header.
C22_Witness ==
    /\ Upgraded /\ InReq.cookie = <<>>
    /\ OutHeaders.cookie = << <<>> >>

\* C23: for every request classified Forward or Upgrade, building the
\* outbound request does not abort the handler and gives an HTTP/1.1
\* request whose URI is the inbound path-and-query.
C23_OutboundRequestBuilt ==
    eng.kind \in {"Forward", "Upgrade"} =>
        /\ eng.pc # "panicked"
        /\ eng.out_req # None
        /\ eng.out_req[1].version = HTTP_11
        /\ eng.out_req[1].uri = PathOf(InReq)

====
